---- MODULE Spec2Model ----
(***************************************************************************)
(* State-machine model of DeepFilterNet/df/train.py: main (the training    *)
(* orchestrator), run_epoch (one pass over one split), load_opt and the    *)
(* SIGUSR1 handler.                                                        *)
(*                                                                         *)
(* Model parameters and optimizer state are abstracted to the number of    *)
(* optimizer steps that produced them; a loss is a small integer and a     *)
(* mean is kept as the exact fraction num/den.  Exception messages are     *)
(* sequences of characters so that str.lower() and the `in` substring test *)
(* are computed, not assumed.                                              *)
(***************************************************************************)
EXTENDS Integers, Sequences, FiniteSets, TLC

VARIABLES
    pc,              \* position of main
    resume,          \* args.resume
    start_eval,      \* config START_EVAL
    should_stop,     \* module global should_stop
    continue_file,   \* the "continue" marker file exists
    epoch,           \* main's local `epoch`
    it,              \* next value of the range(epoch, max_epochs) iterator
    params,          \* model parameters (number of optimizer steps behind them)
    opt_state,       \* optimizer state (number of optimizer steps behind it)
    opt_lr,          \* epoch index e such that group["lr"] = factor(e) * initial_lr
    lrs_last_epoch,  \* lrs.last_epoch
    cp,              \* checkpoint store: role -> last written record
    split,           \* run_epoch: split
    ep_arg,          \* run_epoch: epoch argument
    caller,          \* run_epoch: call site in main
    i,               \* run_epoch: enumerate index of the next batch
    n_nans,          \* run_epoch: n_nans
    l_mem,           \* run_epoch: l_mem
    hidden_detached, \* detach_hidden ran since the model's last forward
    ret,             \* value returned by the last run_epoch, until it is logged
    outcome,         \* how the process ended
    exit_status,     \* process exit status
    raised,          \* the exception that left main
    raised_at,       \* where it was raised
    trace,           \* history: events of this run, in order
    sig_epoch,       \* history: loop epoch whose stop check was next at the first signal
    seen_nonfinite,  \* history: non-finite batch outcomes fed to the current pass
    seen_finite,     \* history: losses of the finite batches fed to the current pass
    start_params,    \* history: params at the start of this pass
    start_opt_state, \* history: opt_state at the start of this pass
    data_config_file, \* args.data_config_file is a file
    data_dir,        \* args.data_dir is a directory, until the loader is built
    optimizer,       \* config OPTIMIZER, until load_opt has read it
    mask_only,       \* config MASK_ONLY
    df_only,         \* config DF_ONLY
    named_parameters, \* names of model.named_parameters()
    opt_params,      \* names of the parameters the optimizer is bound to
    lr,              \* config lr, in units of 1e-6
    factor,          \* value of the scheduler's lambda at lrs.last_epoch
    batch,           \* the batch the loader yields next, where it is known
    budget_used      \* history: the previous pass of this run skipped MaxNaNs batches

vars == <<pc, resume, start_eval, should_stop, continue_file, epoch, it, params,
          opt_state, opt_lr, lrs_last_epoch, cp, split, ep_arg, caller, i, n_nans,
          l_mem, hidden_detached, ret, outcome, exit_status, raised, raised_at,
          trace, sig_epoch, seen_nonfinite, seen_finite, start_params,
          start_opt_state, data_config_file, data_dir, optimizer, mask_only,
          df_only, named_parameters, opt_params, lr, factor, batch, budget_used>>

\* the inputs of a run and what load_opt made of them
in_vars == <<data_config_file, data_dir, optimizer, opt_params>>

\* the configuration, and the parts of the state only some specifications move
cfg_vars == <<mask_only, df_only, named_parameters, lr, factor, batch>>

main_vars == <<resume, start_eval, epoch, it, opt_lr, lrs_last_epoch, cp, in_vars,
               cfg_vars, budget_used>>

(***************************************************************************)
(* Bounds of the model and constants of the program.                       *)
(***************************************************************************)
\* MAX_EPOCHS of the modelled configuration
MaxEpochs == 2

\* at most this many batches of one pass yield a finite loss
MaxFinite == 2

\* the ceiling of n_nans in run_epoch
MaxNaNs == 10

LossVals == {1, 2}

None == "none"

\* no value returned yet
NoRet == [num |-> 0, den |-> 0]

\* an empty checkpoint directory: tags written by main are >= 1
NoCp == [model |-> [epoch |-> 0, obj |-> 0],
         opt |-> [epoch |-> 0, obj |-> [state |-> 0, lr |-> -1]]]

(***************************************************************************)
(* Exceptions and their messages.                                          *)
(***************************************************************************)
NoExc == [type |-> "none", msg |-> <<>>]

MsgNaN == <<"N", "a", "N">>

MsgNonFinite == <<"n", "o", "n", "-", "f", "i", "n", "i", "t", "e">>

MsgNonFiniteCap == <<"N", "o", "n", "-", "F", "i", "n", "i", "t", "e">>

MsgOther == <<"O", "O", "M">>

MsgEmptyStack == <<"e", "m", "p", "t", "y">>

\* a message that names a path: it holds "nan" and tells of no numerical condition
MsgPath == <<"/", "n", "a", "n", "o">>

MsgEmptyParams == <<"e", "m", "p", "t", "y", " ", "l", "i", "s", "t">>

\* the exceptions a collaborator (model, loss, backward, clip) may raise
Excs ==
    { [type |-> "RuntimeError", msg |-> m] :
          m \in {MsgNaN, MsgNonFinite, MsgNonFiniteCap, MsgOther, MsgPath} }
    \cup { [type |-> "ValueError", msg |-> MsgNaN] }

\* those of them that report no non-finite numerical condition
NonNumerical ==
    { [type |-> "RuntimeError", msg |-> m] : m \in {MsgOther, MsgPath} }

\* the exceptions model.forward may raise
FwdExcs ==
    { [type |-> "RuntimeError", msg |-> m] : m \in {MsgNaN, MsgOther} }

\* str.lower() on one character
LowerChar(c) ==
    CASE c = "N" -> "n"
      [] c = "F" -> "f"
      [] c = "O" -> "o"
      [] c = "M" -> "m"
      [] c = "S" -> "s"
      [] c = "G" -> "g"
      [] c = "D" -> "d"
      [] OTHER -> c

\* str.lower()
Lower(s) == [k \in 1..Len(s) |-> LowerChar(s[k])]

\* the `sub in s` test on strings
Contains(s, sub) ==
    \E k \in 0..(Len(s) - Len(sub)) :
        \A j \in 1..Len(sub) : s[k + j] = sub[j]

StrNan == <<"n", "a", "n">>

StrFinite == <<"f", "i", "n", "i", "t", "e">>

StrNonFinite == <<"n", "o", "n", "-", "f", "i", "n", "i", "t", "e">>

\* run_epoch, the handler of the loss stage: is e skipped as a NaN?
IsNaNLossError(e) ==
    Contains(Lower(e.msg), StrNan) \/ Contains(Lower(e.msg), StrFinite)

\* run_epoch, the handler of the backward/clip stage: is e skipped as a NaN?
IsNaNGradError(e) ==
    /\ e.type = "RuntimeError"
    /\ (Contains(Lower(e.msg), StrNan) \/ Contains(e.msg, StrNonFinite))

\* mutant of BudgetExceeded: the comparison off by one
BudgetExceededOffByOne(n) == n >= MaxNaNs

\* run_epoch: `if n_nans > 10: raise e`
BudgetExceeded(n) == n > MaxNaNs

(***************************************************************************)
(* Means.                                                                  *)
(***************************************************************************)
RECURSIVE SumSeq(_)
SumSeq(s) == IF s = <<>> THEN 0 ELSE s[1] + SumSeq(Tail(s))

\* torch.stack(l_mem).mean() of a non-empty list, as an exact fraction
Mean(s) == [num |-> SumSeq(s), den |-> Len(s)]

(***************************************************************************)
(* The batches a loader may yield: what each stage does on the batch.      *)
(***************************************************************************)
Batches ==
    { [fwd |-> e, loss |-> NoExc, grad |-> NoExc, val |-> 1] : e \in FwdExcs }
    \cup { [fwd |-> NoExc, loss |-> e, grad |-> NoExc, val |-> 1] : e \in Excs }
    \cup { [fwd |-> NoExc, loss |-> NoExc, grad |-> e, val |-> 1] : e \in Excs }
    \cup { [fwd |-> NoExc, loss |-> NoExc, grad |-> NoExc, val |-> v] :
               v \in LossVals }

\* no batch is known
NoBatch == [fwd |-> NoExc, loss |-> NoExc, grad |-> NoExc, val |-> 0]

\* the StepOutcome of batch b in a pass that trains (is_train) or evaluates
Outcome(b, is_train) ==
    IF b.fwd # NoExc THEN "error"
    ELSE IF b.loss # NoExc
         THEN (IF IsNaNLossError(b.loss) THEN "nonfinite" ELSE "error")
    ELSE IF is_train /\ b.grad # NoExc
         THEN (IF IsNaNGradError(b.grad) THEN "nonfinite" ELSE "error")
    ELSE "finite"

(***************************************************************************)
(* How the process ends.                                                   *)
(***************************************************************************)
SystemExit == [type |-> "SystemExit", msg |-> <<>>]

\* @logger.catch on main: an Exception is logged and swallowed, main returns
\* None and the interpreter ends with status 0; SystemExit(0) of exit(0) is no
\* Exception and passes through
LoggerCatch(e) == IF e.type = "SystemExit" THEN 0 ELSE 0

\* an exception e leaves main at place `at`
Propagate(e, at) ==
    /\ pc' = "exited"
    /\ outcome' = "fatal"
    /\ exit_status' = LoggerCatch(e)
    /\ raised' = e
    /\ raised_at' = at

NotRaised == UNCHANGED <<outcome, exit_status, raised, raised_at>>

(***************************************************************************)
(* run_epoch                                                               *)
(***************************************************************************)
\* mutant of EnterRunEpoch: n_nans is shared by the passes of a run, so that a
\* pass starts with the count the previous one ended with
EnterRunEpochSharedBudget(sp, e, c) ==
    /\ pc' = "run"
    /\ split' = sp
    /\ ep_arg' = e
    /\ caller' = c
    /\ i' = 0
    /\ n_nans' = IF budget_used THEN MaxNaNs ELSE 0
    /\ l_mem' = <<>>
    /\ seen_nonfinite' = 0
    /\ seen_finite' = <<>>
    /\ start_params' = params
    /\ start_opt_state' = opt_state
    /\ trace' = Append(trace, <<"start", sp, e>>)

\* run_epoch up to its loop: fresh locals, called from call site c of main
EnterRunEpoch(sp, e, c) ==
    /\ pc' = "run"
    /\ split' = sp
    /\ ep_arg' = e
    /\ caller' = c
    /\ i' = 0
    /\ n_nans' = 0
    /\ l_mem' = <<>>
    /\ seen_nonfinite' = 0
    /\ seen_finite' = <<>>
    /\ start_params' = params
    /\ start_opt_state' = opt_state
    /\ trace' = Append(trace, <<"start", sp, e>>)

\* mutant of NaNPolicy: the `continue` is missing
NaNPolicyNoContinue(n) == IF BudgetExceeded(n) THEN "raise" ELSE "ok"

\* the NaN policy after `n_nans += 1`: re-raise, or `continue` with the next batch
NaNPolicy(n) == IF BudgetExceeded(n) THEN "raise" ELSE "skip"

\* mutant of StepsOptimizer: opt.step() outside `if is_train`
StepsOptimizerAnySplit(kind, is_train) == kind = "ok"

\* opt.step() runs in a training pass, for a batch that raised nothing
StepsOptimizer(kind, is_train) == kind = "ok" /\ is_train

\* what one pass of the loop body does with batch b
Step(b) ==
    LET is_train == split = "train"
        n == n_nans + 1
    IN  IF b.fwd # NoExc
        THEN [kind |-> "raise", exc |-> b.fwd, at |-> "forward", n |-> n_nans]
        ELSE IF b.loss # NoExc
        THEN IF IsNaNLossError(b.loss)
             THEN [kind |-> NaNPolicy(n), exc |-> b.loss, at |-> "loss_nan", n |-> n]
             ELSE [kind |-> "raise", exc |-> b.loss, at |-> "loss", n |-> n_nans]
        ELSE IF is_train /\ b.grad # NoExc
        THEN IF IsNaNGradError(b.grad)
             THEN [kind |-> NaNPolicy(n), exc |-> b.grad, at |-> "grad_nan", n |-> n]
             ELSE [kind |-> "raise", exc |-> b.grad, at |-> "grad", n |-> n_nans]
        ELSE [kind |-> "ok", exc |-> NoExc, at |-> "", n |-> n_nans]

\* one iteration of run_epoch's loop on the batch b the loader yields
Batch(b) ==
    /\ pc = "run"
    /\ \E is_train \in {split = "train"} :
       \E st \in {Step(b)}, oc \in {Outcome(b, is_train)} :
           /\ oc = "finite" => Len(seen_finite) < MaxFinite
           /\ seen_nonfinite' = IF oc = "nonfinite" THEN seen_nonfinite + 1
                                ELSE IF oc = "error" THEN 0
                                ELSE seen_nonfinite
           /\ seen_finite' = IF oc = "finite" THEN Append(seen_finite, b.val)
                             ELSE IF oc = "error" THEN <<>>
                             ELSE seen_finite
           /\ hidden_detached' = IF st.kind = "ok" THEN TRUE
                                 ELSE IF st.at = "forward" THEN hidden_detached
                                 ELSE FALSE
           /\ IF st.kind = "raise"
              THEN \* the exception unwinds run_epoch and main: locals are gone
                   /\ Propagate(st.exc, st.at)
                   /\ i' = 0
                   /\ n_nans' = 0
                   /\ l_mem' = <<>>
                   /\ UNCHANGED <<params, opt_state>>
              ELSE /\ pc' = pc
                   /\ NotRaised
                   /\ i' = i + 1
                   /\ n_nans' = st.n
                   /\ l_mem' = IF st.kind = "ok" THEN Append(l_mem, b.val) ELSE l_mem
                   /\ params' = IF StepsOptimizer(st.kind, is_train) THEN params + 1
                                ELSE params
                   /\ opt_state' = IF StepsOptimizer(st.kind, is_train)
                                   THEN opt_state + 1
                                   ELSE opt_state
    /\ UNCHANGED main_vars
    /\ UNCHANGED <<should_stop, continue_file, split, ep_arg, caller, ret, trace,
                   sig_epoch, start_params, start_opt_state>>

EmptyStack == [type |-> "RuntimeError", msg |-> MsgEmptyStack]

\* the loader is exhausted: cleanup and `return torch.stack(l_mem).mean()`
EpochReturn ==
    /\ pc = "run"
    /\ IF l_mem = <<>>
       THEN /\ Propagate(EmptyStack, "stack")
            /\ i' = 0
            /\ n_nans' = 0
            /\ seen_nonfinite' = 0
            /\ UNCHANGED <<ret, trace, l_mem, budget_used>>
       ELSE /\ pc' = caller
            /\ NotRaised
            /\ ret' = Mean(l_mem)
            /\ trace' = Append(trace, <<"end", split, ep_arg>>)
            /\ budget_used' = (n_nans = MaxNaNs)
            /\ i' = 0
            /\ n_nans' = 0
            /\ l_mem' = <<>>
            /\ UNCHANGED seen_nonfinite
    /\ UNCHANGED <<resume, start_eval, epoch, it, opt_lr, lrs_last_epoch, cp,
                   in_vars, cfg_vars>>
    /\ UNCHANGED <<should_stop, continue_file, params, opt_state, split, ep_arg,
                   caller, hidden_detached, sig_epoch, seen_finite, start_params,
                   start_opt_state>>

(***************************************************************************)
(* Collaborators of main: the checkpoint store and the scheduler.          *)
(***************************************************************************)
\* write_cp(obj, role, checkpoint_dir, tag)
write_cp(store, role, tag, obj) ==
    [store EXCEPT ![role] = [epoch |-> tag, obj |-> obj]]

\* load_model(cp_dir, ...): the persisted model and its epoch counter, or a
\* fresh model at epoch 0
load_model(store, use_cp) ==
    IF use_cp /\ store["model"].epoch # 0
    THEN [params |-> store["model"].obj, epoch |-> store["model"].epoch, read |-> TRUE]
    ELSE [params |-> 0, epoch |-> 0, read |-> FALSE]

\* read_cp(opt, "opt", cp_dir) inside load_opt
read_cp_opt(store, use_cp) ==
    IF use_cp /\ store["opt"].epoch # 0
    THEN [state |-> store["opt"].obj.state, lr |-> store["opt"].obj.lr,
          epoch |-> store["opt"].epoch, read |-> TRUE]
    ELSE [state |-> 0, lr |-> -1, epoch |-> 0, read |-> FALSE]

\* LambdaLR(opt, f, last_epoch): the constructor takes the initial step, so
\* that lrs.last_epoch = last_epoch + 1 and group["lr"] = f(lrs.last_epoch)
LambdaLR(last_epoch) == last_epoch + 1

Max(a, b) == IF a >= b THEN a ELSE b

\* mutant of SchedulerLastEpoch: the scheduler is built with last_epoch = epoch
SchedulerLastEpochNoOffset(e) == Max(0, e)

\* main: `last_epoch = max(0, epoch) - 1`
SchedulerLastEpoch(e) == Max(0, e) - 1

\* main: `n_warmup = 3`
NWarmup == 3

\* cosine_lr_scheduler(min_lr=1e-6), in the units of lr
MinLr == 1

\* LR of the modelled configuration, in the units of lr (1e-4)
DefaultLr == 100

\* mutant of WarmupInitLr: the warmup starts at the base rate
WarmupInitLrBase(l) == l

\* main: `warmup_init_lr=0.1 * lr`; the base rates of the model are multiples of 10
WarmupInitLr(l) == l \div 10

\* the lambda cosine_lr_scheduler(lr, n_warmup, warmup_init_lr, ...) returns, at
\* step e <= n_warmup, as the exact fraction of the base rate: the linear warmup
\* warmup_init_lr + e * (lr - warmup_init_lr) / n_warmup, and at e = n_warmup the
\* start of the first period, where the half-cosine (1 + cos 0) / 2 is 1
cosine_lr_scheduler(l, e) ==
    IF e < NWarmup
    THEN [num |-> NWarmup * WarmupInitLr(l) + e * (l - WarmupInitLr(l)),
          den |-> NWarmup * l]
    ELSE [num |-> MinLr + (l - MinLr), den |-> l]

\* the optimizer selectors of the modelled configurations
Selectors ==
    { <<"a", "d", "a", "m">>, <<"S", "G", "D">>, <<"l", "i", "o", "n">> }

\* load_opt: the keys of `supported`
Supported ==
    { <<"a", "d", "a", "m">>, <<"a", "d", "a", "m", "w">>, <<"s", "g", "d">>,
      <<"r", "m", "s", "p", "r", "o", "p">> }

\* no selector
NoSel == <<>>

\* mutant of SelectorSupported: every selector is taken
SelectorSupportedAny(o) == TRUE

\* load_opt: `optimizer not in supported` fails
SelectorSupported(o) == o \in Supported

\* load_opt: supported[optimizer](params) calls the constructor on its argument
\* p, but the rmsprop entry on the variable params of load_opt
Construct(o, p, params_of_load_opt) ==
    IF o = <<"r", "m", "s", "p", "r", "o", "p">> THEN params_of_load_opt ELSE p

StrDfrnn == <<"d", "f", "r", "n", "n">>

StrDfDec == <<"d", "f", "_", "d", "e", "c">>

StrDf == <<"d", "f">>

\* parameter names a model may have
Names ==
    { <<"e", "n", "c">>, <<"m", ".", "d", "f", "r", "n", "n">>,
      <<"d", "f", "_", "d", "e", "c">>, <<"D", "F", "_", "d", "e", "c">>,
      <<"d", "f", "_", "f", "c">> }

\* mutant of SelectParams: DF_ONLY matches the name as written
SelectParamsCaseSensitive(names, mo, dfo) ==
    IF mo
    THEN {n \in names : ~(Contains(n, StrDfrnn) \/ Contains(n, StrDfDec))}
    ELSE IF dfo
    THEN {n \in names : Contains(n, StrDf)}
    ELSE names

\* load_opt: the parameters handed to the optimizer
SelectParams(names, mo, dfo) ==
    IF mo
    THEN {n \in names : ~(Contains(n, StrDfrnn) \/ Contains(n, StrDfDec))}
    ELSE IF dfo
    THEN {n \in names : Contains(Lower(n), StrDf)}
    ELSE names

\* load_opt up to the construction of the optimizer: torch refuses an empty
\* parameter list with a ValueError
load_opt(sel, names, mo, dfo) ==
    LET o == Lower(sel)
        ps == SelectParams(names, mo, dfo)
        bound == Construct(o, ps, ps)
    IN  IF ~SelectorSupported(o)
        THEN [exc |-> [type |-> "ValueError", msg |-> o], at |-> "load_opt",
              params |-> {}]
        ELSE IF bound = {}
        THEN [exc |-> [type |-> "ValueError", msg |-> MsgEmptyParams],
              at |-> "opt_init", params |-> {}]
        ELSE [exc |-> NoExc, at |-> "", params |-> bound]

(***************************************************************************)
(* main                                                                    *)
(***************************************************************************)
run_locals == <<split, ep_arg, caller, i, n_nans, l_mem, start_params,
                start_opt_state>>

run_vars == <<run_locals, seen_nonfinite, seen_finite>>

\* argument parsing and validation; config.ini is drawn here, as the run will
\* read it
ParseArgs ==
    /\ pc = "args"
    /\ \E r \in BOOLEAN, config_file \in BOOLEAN, dir \in BOOLEAN, sel \in Selectors :
          /\ data_config_file' = config_file
          /\ data_dir' = dir
          /\ IF ~config_file
             THEN /\ Propagate([type |-> "FileNotFoundError", msg |-> <<>>], "args")
                  /\ optimizer' = NoSel
                  /\ UNCHANGED resume
             ELSE \* a missing data_dir builds a NotADirectoryError and drops it
                  /\ pc' = "load"
                  /\ resume' = r
                  /\ optimizer' = sel
                  /\ NotRaised
    /\ UNCHANGED <<start_eval, should_stop, continue_file, epoch, it, params,
                   opt_state, opt_lr, lrs_last_epoch, cp, hidden_detached, ret,
                   trace, sig_epoch>>
    /\ UNCHANGED <<opt_params, cfg_vars, budget_used>>
    /\ UNCHANGED run_vars

\* what DataLoader raises on a directory it cannot read
LoaderError == [type |-> "RuntimeError", msg |-> MsgOther]

\* logger, seed, signal handler, load_model, load_opt, loader, scheduler, losses;
\* whether the loader accepts a data_dir that is no directory is not known
Load ==
    /\ pc = "load"
    /\ \E loader_ok \in (IF data_dir THEN {TRUE} ELSE BOOLEAN) :
          LET m == load_model(cp, resume)
              lo == load_opt(optimizer, named_parameters, mask_only, df_only)
              o == read_cp_opt(cp, resume)
              tr1 == IF m.read THEN Append(trace, <<"read_cp", "model", m.epoch>>)
                     ELSE trace
              tr2 == IF o.read THEN Append(tr1, <<"read_cp", "opt", o.epoch>>)
                     ELSE tr1
          IN  IF lo.exc # NoExc
              THEN /\ Propagate(lo.exc, lo.at)
                   /\ params' = m.params
                   /\ epoch' = m.epoch
                   /\ trace' = tr1
                   /\ opt_params' = lo.params
                   /\ UNCHANGED <<it, opt_state, opt_lr, lrs_last_epoch>>
              ELSE IF ~loader_ok
              THEN /\ Propagate(LoaderError, "loader")
                   /\ params' = m.params
                   /\ epoch' = m.epoch
                   /\ opt_state' = o.state
                   /\ trace' = tr2
                   /\ opt_params' = lo.params
                   /\ UNCHANGED <<it, opt_lr, lrs_last_epoch>>
              ELSE /\ pc' = "start_eval"
                   /\ NotRaised
                   /\ params' = m.params
                   /\ epoch' = m.epoch
                   /\ it' = m.epoch
                   /\ opt_state' = o.state
                   /\ lrs_last_epoch' = LambdaLR(SchedulerLastEpoch(m.epoch))
                   /\ opt_lr' = LambdaLR(SchedulerLastEpoch(m.epoch))
                   /\ trace' = tr2
                   /\ opt_params' = lo.params
    /\ optimizer' = NoSel
    /\ data_dir' = TRUE
    /\ UNCHANGED <<resume, start_eval, should_stop, continue_file, cp,
                   hidden_detached, ret, sig_epoch>>
    /\ UNCHANGED <<data_config_file, cfg_vars, budget_used>>
    /\ UNCHANGED run_vars

\* mutant of StartEval: the pass is labelled epoch, not epoch - 1
StartEvalSameEpoch ==
    /\ pc = "start_eval"
    /\ IF start_eval
       THEN EnterRunEpoch("valid", epoch, "after_start_eval")
       ELSE /\ pc' = "loop"
            /\ UNCHANGED trace
            /\ UNCHANGED run_vars
    /\ NotRaised
    /\ UNCHANGED main_vars
    /\ UNCHANGED <<should_stop, continue_file, params, opt_state, hidden_detached,
                   ret, sig_epoch>>

\* `if config("START_EVAL", ...)`: the optional validation pass
StartEval ==
    /\ pc = "start_eval"
    /\ IF start_eval
       THEN EnterRunEpoch("valid", epoch - 1, "after_start_eval")
       ELSE /\ pc' = "loop"
            /\ UNCHANGED trace
            /\ UNCHANGED run_vars
    /\ NotRaised
    /\ UNCHANGED main_vars
    /\ UNCHANGED <<should_stop, continue_file, params, opt_state, hidden_detached,
                   ret, sig_epoch>>

\* an action of main between two calls of run_epoch: logs event ev, goes to `to`
MainStep(from, to, ev) ==
    /\ pc = from
    /\ pc' = to
    /\ trace' = Append(trace, ev)
    /\ NotRaised
    /\ seen_nonfinite' = 0
    /\ seen_finite' = <<>>
    /\ UNCHANGED <<resume, start_eval, epoch, it, should_stop, continue_file,
                   params, opt_state, hidden_detached, sig_epoch>>
    /\ UNCHANGED <<in_vars, cfg_vars, budget_used>>
    /\ UNCHANGED run_locals

\* log_metrics of the START_EVAL pass, losses.reset_summaries, config.save
AfterStartEval ==
    /\ MainStep("after_start_eval", "loop", <<"log", "valid", epoch - 1>>)
    /\ ret' = NoRet
    /\ UNCHANGED <<opt_lr, lrs_last_epoch, cp>>

\* mutant of LoopHead: the range includes max_epochs
LoopHeadInclusive ==
    /\ pc = "loop"
    /\ IF it <= MaxEpochs
       THEN /\ epoch' = it
            /\ it' = it + 1
            /\ EnterRunEpoch("train", it, "after_train")
       ELSE /\ UNCHANGED <<epoch, it>>
            /\ EnterRunEpoch("test", epoch, "after_test")
    /\ NotRaised
    /\ UNCHANGED <<resume, start_eval, opt_lr, lrs_last_epoch, cp, should_stop,
                   continue_file, params, opt_state, hidden_detached, ret,
                   sig_epoch>>
    /\ UNCHANGED <<in_vars, cfg_vars, budget_used>>

\* `for epoch in range(epoch, max_epochs)`: the next training pass, or the
\* test pass once the range is exhausted
LoopHead ==
    /\ pc = "loop"
    /\ IF it < MaxEpochs
       THEN /\ epoch' = it
            /\ it' = it + 1
            /\ EnterRunEpoch("train", it, "after_train")
       ELSE /\ UNCHANGED <<epoch, it>>
            /\ EnterRunEpoch("test", epoch, "after_test")
    /\ NotRaised
    /\ UNCHANGED <<resume, start_eval, opt_lr, lrs_last_epoch, cp, should_stop,
                   continue_file, params, opt_state, hidden_detached, ret,
                   sig_epoch>>
    /\ UNCHANGED <<in_vars, cfg_vars, budget_used>>

\* mutant of AfterTrain: validation is called without writing the checkpoints
AfterTrainSkipsCheckpoint ==
    /\ MainStep("after_train", "call_valid", <<"log", "train", epoch>>)
    /\ ret' = NoRet
    /\ UNCHANGED <<opt_lr, lrs_last_epoch, cp>>

\* metrics of the training pass
AfterTrain ==
    /\ MainStep("after_train", "write_model", <<"log", "train", epoch>>)
    /\ ret' = NoRet
    /\ UNCHANGED <<opt_lr, lrs_last_epoch, cp>>

\* mutant of WriteModel: the tag is epoch, not epoch + 1
WriteModelTagEpoch ==
    /\ MainStep("write_model", "write_opt", <<"write_cp", "model", epoch>>)
    /\ cp' = write_cp(cp, "model", epoch, params)
    /\ UNCHANGED <<opt_lr, lrs_last_epoch, ret>>

\* write_cp(model, "model", checkpoint_dir, epoch + 1)
WriteModel ==
    /\ MainStep("write_model", "write_opt", <<"write_cp", "model", epoch + 1>>)
    /\ cp' = write_cp(cp, "model", epoch + 1, params)
    /\ UNCHANGED <<opt_lr, lrs_last_epoch, ret>>

\* mutant of WriteOpt: the tag is epoch, not epoch + 1
WriteOptTagEpoch ==
    /\ MainStep("write_opt", "call_valid", <<"write_cp", "opt", epoch>>)
    /\ cp' = write_cp(cp, "opt", epoch, [state |-> opt_state, lr |-> opt_lr])
    /\ UNCHANGED <<opt_lr, lrs_last_epoch, ret>>

\* write_cp(opt, "opt", checkpoint_dir, epoch + 1)
WriteOpt ==
    /\ MainStep("write_opt", "call_valid", <<"write_cp", "opt", epoch + 1>>)
    /\ cp' = write_cp(cp, "opt", epoch + 1, [state |-> opt_state, lr |-> opt_lr])
    /\ UNCHANGED <<opt_lr, lrs_last_epoch, ret>>

\* losses.reset_summaries and the validation pass
CallValid ==
    /\ pc = "call_valid"
    /\ EnterRunEpoch("valid", epoch, "after_valid")
    /\ NotRaised
    /\ UNCHANGED main_vars
    /\ UNCHANGED <<should_stop, continue_file, params, opt_state, hidden_detached,
                   ret, sig_epoch>>

\* metrics of the validation pass
AfterValid ==
    /\ MainStep("after_valid", "check_stop", <<"log", "valid", epoch>>)
    /\ ret' = NoRet
    /\ UNCHANGED <<opt_lr, lrs_last_epoch, cp>>

\* mutant of StopCheck: the flag is not checked
StopCheckMissing ==
    /\ pc = "check_stop"
    /\ pc' = "lrs_step"
    /\ NotRaised
    /\ UNCHANGED main_vars
    /\ UNCHANGED <<should_stop, continue_file, params, opt_state, hidden_detached,
                   ret, trace, sig_epoch>>
    /\ UNCHANGED run_vars

\* mutant of StopCheck: `break` instead of exit(0), so that the test pass follows
StopCheckBreak ==
    /\ pc = "check_stop"
    /\ IF should_stop
       THEN /\ EnterRunEpoch("test", epoch, "after_test")
            /\ UNCHANGED hidden_detached
       ELSE /\ pc' = "lrs_step"
            /\ UNCHANGED <<trace, hidden_detached>>
            /\ UNCHANGED run_vars
    /\ NotRaised
    /\ UNCHANGED main_vars
    /\ UNCHANGED <<should_stop, continue_file, params, opt_state, ret, sig_epoch>>

\* `if should_stop: exit(0)`
StopCheck ==
    /\ pc = "check_stop"
    /\ IF should_stop
       THEN /\ pc' = "exited"
            /\ outcome' = "stopped"
            /\ exit_status' = LoggerCatch(SystemExit)
            /\ raised' = SystemExit
            /\ raised_at' = "check_stop"
       ELSE /\ pc' = "lrs_step"
            /\ NotRaised
    /\ UNCHANGED main_vars
    /\ UNCHANGED <<should_stop, continue_file, params, opt_state, hidden_detached,
                   ret, trace, sig_epoch>>
    /\ UNCHANGED run_vars

\* losses.reset_summaries(); lrs.step()
LrsStep ==
    /\ MainStep("lrs_step", "loop", <<"lrs_step", "", lrs_last_epoch + 1>>)
    /\ lrs_last_epoch' = lrs_last_epoch + 1
    /\ opt_lr' = lrs_last_epoch + 1
    /\ UNCHANGED <<cp, ret>>

\* metrics of the test pass; main returns
AfterTest ==
    /\ pc = "after_test"
    /\ pc' = "exited"
    /\ outcome' = "finished"
    /\ exit_status' = 0
    /\ ret' = NoRet
    /\ trace' = Append(trace, <<"log", "test", epoch>>)
    /\ seen_nonfinite' = 0
    /\ seen_finite' = <<>>
    /\ UNCHANGED <<raised, raised_at>>
    /\ UNCHANGED main_vars
    /\ UNCHANGED <<should_stop, continue_file, params, opt_state, hidden_detached,
                   sig_epoch>>
    /\ UNCHANGED run_locals

\* is main inside the body of the epoch loop, before its stop check?
InLoopBody ==
    pc \in {"after_train", "write_model", "write_opt", "call_valid", "after_valid",
            "check_stop"}
    \/ (pc = "run" /\ caller \in {"after_train", "after_valid"})

\* the handler h of get_sigusr1_handler, run on SIGUSR1
Signal ==
    /\ pc \notin {"args", "load", "exited"}
    /\ should_stop' = TRUE
    /\ continue_file' = TRUE
    /\ sig_epoch' = IF should_stop THEN sig_epoch
                    ELSE IF InLoopBody THEN epoch ELSE it
    /\ UNCHANGED <<pc, params, opt_state, hidden_detached, ret, outcome,
                   exit_status, raised, raised_at, trace>>
    /\ UNCHANGED main_vars
    /\ UNCHANGED run_vars

\* the process is started again on the same base_dir; the "continue" marker
\* is consumed by the external orchestration that restarts it
Restart ==
    /\ pc = "exited"
    /\ pc' = "args"
    /\ resume' = FALSE
    /\ should_stop' = FALSE
    /\ continue_file' = FALSE
    /\ epoch' = 0
    /\ it' = 0
    /\ params' = 0
    /\ opt_state' = 0
    /\ opt_lr' = -1
    /\ lrs_last_epoch' = -1
    /\ split' = None
    /\ ep_arg' = 0
    /\ caller' = None
    /\ i' = 0
    /\ n_nans' = 0
    /\ l_mem' = <<>>
    /\ hidden_detached' = TRUE
    /\ ret' = NoRet
    /\ outcome' = "running"
    /\ exit_status' = -1
    /\ raised' = NoExc
    /\ raised_at' = None
    /\ trace' = <<>>
    /\ sig_epoch' = -1
    /\ seen_nonfinite' = 0
    /\ seen_finite' = <<>>
    /\ start_params' = 0
    /\ start_opt_state' = 0
    /\ data_config_file' = TRUE
    /\ data_dir' = TRUE
    /\ optimizer' = NoSel
    /\ opt_params' = {}
    /\ budget_used' = FALSE
    /\ UNCHANGED <<start_eval, cp>>
    /\ UNCHANGED cfg_vars

\* what every specification starts from: a process on an empty base_dir
InitCommon ==
    /\ resume = FALSE
    /\ should_stop = FALSE
    /\ continue_file = FALSE
    /\ params = 0
    /\ opt_state = 0
    /\ l_mem = <<>>
    /\ ret = NoRet
    /\ outcome = "running"
    /\ exit_status = -1
    /\ raised = NoExc
    /\ raised_at = None
    /\ sig_epoch = -1
    /\ seen_finite = <<>>
    /\ start_params = 0
    /\ start_opt_state = 0
    /\ data_config_file = TRUE
    /\ data_dir = TRUE
    /\ budget_used = FALSE

\* a process that has just been started
InitProcess ==
    /\ InitCommon
    /\ pc = "args"
    /\ start_eval \in BOOLEAN
    /\ epoch = 0
    /\ it = 0
    /\ opt_lr = -1
    /\ lrs_last_epoch = -1
    /\ split = None
    /\ ep_arg = 0
    /\ caller = None
    /\ i = 0
    /\ n_nans = 0
    /\ hidden_detached = TRUE
    /\ trace = <<>>
    /\ seen_nonfinite = 0
    /\ optimizer = NoSel
    /\ mask_only = FALSE
    /\ df_only = FALSE
    /\ named_parameters = Names
    /\ opt_params = {}
    /\ lr = DefaultLr
    /\ factor = NoRet
    /\ batch = NoBatch

\* a first run on an empty base_dir
Init == InitProcess /\ cp = NoCp

Next ==
    \/ ParseArgs
    \/ Load
    \/ StartEval
    \/ AfterStartEval
    \/ LoopHead
    \/ \E b \in Batches : Batch(b)
    \/ EpochReturn
    \/ AfterTrain
    \/ WriteModel
    \/ WriteOpt
    \/ CallValid
    \/ AfterValid
    \/ StopCheck
    \/ LrsStep
    \/ AfterTest
    \/ Signal
    \/ Restart

Spec == Init /\ [][Next]_vars

\* the batches with the loss value fixed: the value of a finite loss decides
\* no branch of main or run_epoch
LiveBatches == {b \in Batches : b.val = 1}

\* the statements of main and run_epoch: every step but the arrival of a
\* signal and the restart of the process
Run ==
    \/ ParseArgs
    \/ Load
    \/ StartEval
    \/ AfterStartEval
    \/ LoopHead
    \/ \E b \in LiveBatches : Batch(b)
    \/ EpochReturn
    \/ AfterTrain
    \/ WriteModel
    \/ WriteOpt
    \/ CallValid
    \/ AfterValid
    \/ StopCheck
    \/ LrsStep
    \/ AfterTest

\* the checkpoints left by a run that trained the epochs 0..t-1, with one
\* optimizer step in each
StoreAfter(t) ==
    [model |-> [epoch |-> t, obj |-> t],
     opt |-> [epoch |-> t, obj |-> [state |-> t, lr |-> t - 1]]]

\* one run of main, on an empty base_dir or on one an earlier run has left
InitLive == InitProcess /\ cp \in {NoCp} \cup {StoreAfter(t) : t \in 1..MaxEpochs}

NextLive == Run \/ Signal

\* the interpreter runs the next statement of a process that has not ended, and
\* a loader yields its next batch or ends
LiveSpec == InitLive /\ [][NextLive]_vars /\ WF_vars(Run)

(***************************************************************************)
(* The scheduler alone: the lambda of cosine_lr_scheduler over the warmup, *)
(* for the base rates 10, 20, ..., 10 * MaxLr.                             *)
(***************************************************************************)
\* the base rates go up to 10 * MaxLr
MaxLr == 30

InitLr ==
    /\ InitCommon
    /\ cp = NoCp
    /\ pc = "lrs"
    /\ start_eval = FALSE
    /\ epoch = 0
    /\ it = 0
    /\ lr \in {10 * k : k \in 1..MaxLr}
    /\ lrs_last_epoch = LambdaLR(SchedulerLastEpoch(0))
    /\ opt_lr = LambdaLR(SchedulerLastEpoch(0))
    /\ factor = cosine_lr_scheduler(lr, LambdaLR(SchedulerLastEpoch(0)))
    /\ split = None
    /\ ep_arg = 0
    /\ caller = None
    /\ i = 0
    /\ n_nans = 0
    /\ hidden_detached = TRUE
    /\ trace = <<>>
    /\ seen_nonfinite = 0
    /\ optimizer = NoSel
    /\ mask_only = FALSE
    /\ df_only = FALSE
    /\ named_parameters = Names
    /\ opt_params = Names
    /\ batch = NoBatch

\* lrs.step() of LambdaLR: the lambda is called on the new last_epoch
LambdaStep ==
    /\ pc = "lrs"
    /\ lrs_last_epoch < NWarmup
    /\ lrs_last_epoch' = lrs_last_epoch + 1
    /\ opt_lr' = lrs_last_epoch + 1
    /\ factor' = cosine_lr_scheduler(lr, lrs_last_epoch + 1)
    /\ UNCHANGED <<pc, resume, start_eval, should_stop, continue_file, epoch, it,
                   params, opt_state, cp, hidden_detached, ret, outcome,
                   exit_status, raised, raised_at, trace, sig_epoch, in_vars,
                   mask_only, df_only, named_parameters, lr, batch, budget_used>>
    /\ UNCHANGED run_vars

SpecLr == InitLr /\ [][LambdaStep]_vars

(***************************************************************************)
(* load_opt over the configurations: selector, selection mode and the      *)
(* names of the model's parameters.                                        *)
(***************************************************************************)
InitLoadOpt ==
    /\ InitCommon
    /\ cp = NoCp
    /\ pc = "load"
    /\ start_eval = FALSE
    /\ epoch = 0
    /\ it = 0
    /\ opt_lr = -1
    /\ lrs_last_epoch = -1
    /\ split = None
    /\ ep_arg = 0
    /\ caller = None
    /\ i = 0
    /\ n_nans = 0
    /\ hidden_detached = TRUE
    /\ trace = <<>>
    /\ seen_nonfinite = 0
    /\ optimizer \in Supported \cup Selectors
    /\ mask_only \in BOOLEAN
    /\ df_only \in BOOLEAN
    /\ named_parameters \in SUBSET Names
    /\ opt_params = {}
    /\ lr = DefaultLr
    /\ factor = NoRet
    /\ batch = NoBatch

SpecLoadOpt == InitLoadOpt /\ [][Load]_vars

(***************************************************************************)
(* One iteration of run_epoch's loop on a known batch: the first pass of a *)
(* fresh run (training, or the START_EVAL validation) after k skipped      *)
(* batches.                                                                *)
(***************************************************************************)
InitBatch ==
    /\ InitCommon
    /\ cp = NoCp
    /\ pc = "run"
    /\ split \in {"train", "valid"}
    /\ start_eval = (split = "valid")
    /\ epoch = 0
    /\ it = IF split = "train" THEN 1 ELSE 0
    /\ ep_arg = IF split = "train" THEN 0 ELSE -1
    /\ caller = IF split = "train" THEN "after_train" ELSE "after_start_eval"
    /\ opt_lr = 0
    /\ lrs_last_epoch = 0
    /\ n_nans \in 0..MaxNaNs
    /\ i = n_nans
    /\ seen_nonfinite = n_nans
    /\ hidden_detached = (n_nans = 0)
    /\ trace = << <<"start", split, ep_arg>> >>
    /\ optimizer = NoSel
    /\ mask_only = FALSE
    /\ df_only = FALSE
    /\ named_parameters = Names
    /\ opt_params = Names
    /\ lr = DefaultLr
    /\ factor = NoRet
    /\ batch \in Batches

\* the loader yields `batch`
NextBatch == Batch(batch)

SpecBatch == InitBatch /\ [][NextBatch]_vars

(***************************************************************************)
(* History helpers.                                                        *)
(***************************************************************************)
Has(ev) == \E k \in DOMAIN trace : trace[k] = ev

Count(ev) == Cardinality({k \in DOMAIN trace : trace[k] = ev})

Epochs == 0..(MaxEpochs + 1)

\* a pass is running, or has just returned and its value is not yet logged
InPass == pc = "run" \/ ret # NoRet

\* the run ended because the NaN budget of a pass was exceeded
NaNAbort == outcome = "fatal" /\ raised_at \in {"loss_nan", "grad_nan"}

(***************************************************************************)
(* C1: run_epoch re-raises the originating error exactly when the count of *)
(* non-finite outcomes of the pass (loss stage and gradient stage counted  *)
(* together) first exceeds 10, that is on the 11th; it does not abort for  *)
(* a non-finite outcome while the count is at most 10 and processes no     *)
(* batch once the count exceeds 10.                                        *)
(***************************************************************************)
C1_NaNBudget ==
    /\ pc = "run" => (n_nans = seen_nonfinite /\ seen_nonfinite <= MaxNaNs)
    /\ NaNAbort =>
          /\ seen_nonfinite = MaxNaNs + 1
          /\ raised \in Excs
          /\ raised_at = "loss_nan" => IsNaNLossError(raised)
          /\ raised_at = "grad_nan" => IsNaNGradError(raised)
    /\ seen_nonfinite > MaxNaNs => NaNAbort

C1_Witness ==
    NaNAbort /\ raised_at = "grad_nan" /\ split = "train"
    /\ seen_nonfinite = MaxNaNs + 1

(***************************************************************************)
(* C2: the mean run_epoch returns is the mean of the losses of exactly the *)
(* batches with a finite outcome, in order; a batch skipped as non-finite  *)
(* contributes nothing.  10 non-finite batches and one finite batch return *)
(* that batch's loss.                                                      *)
(***************************************************************************)
C2_MeanOverFinite ==
    /\ pc = "run" => l_mem = seen_finite
    /\ ret # NoRet =>
          /\ seen_finite # <<>>
          /\ ret.den = Len(seen_finite)
          /\ ret.num = SumSeq(seen_finite)
          /\ (seen_nonfinite = MaxNaNs /\ Len(seen_finite) = 1) =>
                ret.num = seen_finite[1] * ret.den

C2_Witness ==
    /\ ret # NoRet
    /\ seen_nonfinite = MaxNaNs
    /\ seen_finite = <<2>>
    /\ ret = [num |-> 2, den |-> 1]

(***************************************************************************)
(* C3: a batch with a non-finite outcome applies no optimizer step, so the *)
(* parameters and the optimizer state are those before it; over a training *)
(* pass the optimizer steps are as many as the batches that passed the     *)
(* loss and the clipping stage, and a valid or test pass takes none.       *)
(***************************************************************************)
C3_StepsOnlyFinite ==
    (InPass \/ NaNAbort) =>
        LET steps == IF split = "train" THEN Len(seen_finite) ELSE 0
        IN  /\ params = start_params + steps
            /\ opt_state = start_opt_state + steps

C3_Witness ==
    /\ pc = "run"
    /\ split = "train"
    /\ seen_nonfinite = 3
    /\ Len(seen_finite) = 2
    /\ params = start_params + 2

LastEvents(n) == SubSeq(trace, Len(trace) - n + 1, Len(trace))

\* the tag of the model checkpoint this run resumed from, 0 if it did not
ResumedFrom ==
    IF trace # <<>> /\ trace[1][1] = "read_cp" /\ trace[1][2] = "model"
    THEN trace[1][3]
    ELSE 0

\* trace[k] starts the first pass of this run
IsFirstStart(k) ==
    /\ trace[k][1] = "start"
    /\ \A j \in 1..(k - 1) : trace[j][1] # "start"

TestStarted == \E k \in DOMAIN trace : trace[k][1] = "start" /\ trace[k][2] = "test"

\* main is in the validation pass of the epoch loop, or between it and the stop check
InLoopValid ==
    \/ (pc = "run" /\ caller = "after_valid")
    \/ pc \in {"after_valid", "check_stop"}

(***************************************************************************)
(* C4: a stop signal that arrives during epoch e, before that epoch's stop *)
(* check, lets the training and validation passes of e complete, the       *)
(* checkpoint of e be written and the validation metrics be logged; the    *)
(* process then exits at the check after validation, and it starts no      *)
(* training for e+1, takes no scheduler step and runs no test pass.        *)
(***************************************************************************)
C4_StopAtEpochBoundary ==
    /\ outcome = "stopped" =>
          /\ should_stop
          /\ raised_at = "check_stop"
          /\ epoch = sig_epoch
          /\ Len(trace) >= 7
          /\ LastEvents(7) = << <<"end", "train", epoch>>,
                                <<"log", "train", epoch>>,
                                <<"write_cp", "model", epoch + 1>>,
                                <<"write_cp", "opt", epoch + 1>>,
                                <<"start", "valid", epoch>>,
                                <<"end", "valid", epoch>>,
                                <<"log", "valid", epoch>> >>
          /\ cp["model"].epoch = epoch + 1
          /\ cp["opt"].epoch = epoch + 1
          /\ lrs_last_epoch = epoch
    /\ sig_epoch # -1 =>
          /\ should_stop
          /\ \A e \in Epochs : Has(<<"start", "train", e>>) => e <= sig_epoch
          /\ lrs_last_epoch <= sig_epoch
          /\ sig_epoch < MaxEpochs =>
                /\ ~TestStarted
                /\ pc = "exited" => outcome \in {"stopped", "fatal"}

C4_Witness ==
    /\ outcome = "stopped"
    /\ sig_epoch = 0
    /\ epoch = 0
    /\ epoch + 1 < MaxEpochs
    /\ lrs_last_epoch = 0

(***************************************************************************)
(* C5: in every epoch e of the loop the model and optimizer checkpoints    *)
(* tagged e+1 are written after the training pass of e has returned and    *)
(* before its validation pass starts; validation updates neither the       *)
(* parameters nor the optimizer state, so what is persisted is the state   *)
(* after training.                                                         *)
(***************************************************************************)
C5_CheckpointBetweenTrainAndValid ==
    /\ \A k \in DOMAIN trace :
          (trace[k][1] = "write_cp" /\ trace[k][2] = "model") =>
              /\ k >= 3
              /\ trace[k - 2] = <<"end", "train", trace[k][3] - 1>>
              /\ k < Len(trace) => trace[k + 1] = <<"write_cp", "opt", trace[k][3]>>
              /\ k + 1 < Len(trace) =>
                    trace[k + 2] = <<"start", "valid", trace[k][3] - 1>>
    /\ \A k \in DOMAIN trace :
          (trace[k][1] = "start" /\ trace[k][2] = "valid" /\ ~IsFirstStart(k)) =>
              trace[k - 1] = <<"write_cp", "opt", trace[k][3] + 1>>
    /\ InLoopValid =>
          /\ cp["model"] = [epoch |-> epoch + 1, obj |-> params]
          /\ cp["opt"].epoch = epoch + 1
          /\ cp["opt"].obj.state = opt_state
          /\ params = start_params
          /\ opt_state = start_opt_state

C5_Witness ==
    /\ pc = "check_stop"
    /\ epoch = 1
    /\ params = 3
    /\ cp["model"] = [epoch |-> 2, obj |-> 3]
    /\ cp["opt"].obj.state = 3

(***************************************************************************)
(* C6: for every epoch whose training pass completes the model checkpoint  *)
(* and the optimizer checkpoint are each written exactly once, tagged      *)
(* epoch+1; nothing is written for an epoch whose training pass aborts;    *)
(* the tags written in a run increase strictly; checkpoints are read at    *)
(* most once, at startup, and only when resuming.                          *)
(***************************************************************************)
\* the write of `role` for the epoch that has just been trained is still to come
WritePending(role) ==
    pc \in (IF role = "model" THEN {"after_train", "write_model"}
            ELSE {"after_train", "write_model", "write_opt"})

C6_CheckpointOncePerEpoch ==
    /\ \A k \in DOMAIN trace :
          trace[k][1] = "write_cp" =>
              /\ Has(<<"end", "train", trace[k][3] - 1>>)
              /\ Count(trace[k]) = 1
              /\ \A j \in 1..(k - 1) :
                    (trace[j][1] = "write_cp" /\ trace[j][2] = trace[k][2]) =>
                        trace[j][3] < trace[k][3]
    /\ \A e \in Epochs : \A role \in {"model", "opt"} :
          (Has(<<"end", "train", e>>) /\ ~(epoch = e /\ WritePending(role))) =>
              Count(<<"write_cp", role, e + 1>>) = 1
    /\ \A k \in DOMAIN trace :
          trace[k][1] = "read_cp" =>
              /\ resume
              /\ k <= 2
              /\ \A j \in 1..(k - 1) : trace[j][1] = "read_cp" /\ trace[j][2] # trace[k][2]

C6_Witness ==
    /\ outcome = "finished"
    /\ trace[1] = <<"read_cp", "model", 1>>
    /\ trace[2] = <<"read_cp", "opt", 1>>
    /\ Count(<<"write_cp", "model", 2>>) = 1
    /\ Count(<<"write_cp", "opt", 2>>) = 1

(***************************************************************************)
(* C7 as stated: after a restart from the checkpoint written for epoch e   *)
(* the first pass executed is the validation pass of epoch e.              *)
(***************************************************************************)
C7_ResumeStartsWithValidation ==
    \A k \in DOMAIN trace :
        (ResumedFrom # 0 /\ IsFirstStart(k)) =>
            trace[k] = <<"start", "valid", ResumedFrom - 1>>

(***************************************************************************)
(* C7 amended: a resume never lands mid-training.  After a restart from    *)
(* the checkpoint written for epoch e (tag e+1) the first pass starts at   *)
(* its first batch with the persisted parameters, and it is the validation *)
(* pass labelled e only when START_EVAL is set; otherwise it is the        *)
(* training pass of epoch e+1, or the test pass when e+1 = MAX_EPOCHS.     *)
(***************************************************************************)
C7_ResumeLandsAtPassStart ==
    \A k \in DOMAIN trace :
        (ResumedFrom # 0 /\ IsFirstStart(k)) =>
            /\ trace[k] = IF start_eval THEN <<"start", "valid", ResumedFrom - 1>>
                          ELSE IF ResumedFrom < MaxEpochs
                               THEN <<"start", "train", ResumedFrom>>
                               ELSE <<"start", "test", ResumedFrom>>
            /\ (k = Len(trace) /\ pc = "run" /\ i = 0) =>
                  /\ l_mem = <<>>
                  /\ n_nans = 0
                  /\ params = cp["model"].obj
                  /\ cp["model"].epoch = ResumedFrom

C7_Witness ==
    /\ ResumedFrom = 1
    /\ ~start_eval
    /\ pc = "run"
    /\ split = "train"
    /\ ep_arg = 1
    /\ i = 0
    /\ Len(trace) = 3

(***************************************************************************)
(* C8 as stated: the test pass runs exactly once when the epoch loop ends  *)
(* normally, never in a run that ended through the stop signal or a fatal  *)
(* error, and no training or validation pass follows it.                   *)
(***************************************************************************)
C8_TestNeverInFailedRun ==
    /\ outcome \in {"stopped", "fatal"} => ~TestStarted
    /\ outcome = "finished" => TestStarted
    /\ \A k \in DOMAIN trace :
          (trace[k][1] = "start" /\ trace[k][2] = "test") =>
              \A j \in (k + 1)..Len(trace) : trace[j][1] # "start"

(***************************************************************************)
(* C8 amended: the test pass runs exactly once when the epoch loop ends    *)
(* normally (the range exhausted, also with zero iterations), never in a   *)
(* run that ended through the stop signal or through a fatal error raised  *)
(* before the test pass, and no training or validation pass follows it.    *)
(***************************************************************************)
C8_TestOnceAfterLoop ==
    /\ Cardinality({k \in DOMAIN trace :
                        trace[k][1] = "start" /\ trace[k][2] = "test"}) <= 1
    /\ TestStarted =>
          /\ it >= MaxEpochs
          /\ it = IF ResumedFrom > MaxEpochs THEN ResumedFrom ELSE MaxEpochs
          /\ split = "test"
          /\ outcome # "stopped"
          /\ \A e \in Epochs :
                (ResumedFrom <= e /\ e < MaxEpochs) => Has(<<"log", "valid", e>>)
    /\ outcome = "stopped" => ~TestStarted
    /\ (outcome = "fatal" /\ split # "test") => ~TestStarted
    /\ outcome = "finished" =>
          /\ TestStarted
          /\ trace[Len(trace)] = <<"log", "test", epoch>>
    /\ \A k \in DOMAIN trace :
          (trace[k][1] = "start" /\ trace[k][2] = "test") =>
              \A j \in (k + 1)..Len(trace) : trace[j][1] # "start"

C8_Witness ==
    /\ outcome = "finished"
    /\ ResumedFrom = MaxEpochs
    /\ ~Has(<<"start", "train", MaxEpochs - 1>>)
    /\ Has(<<"end", "test", MaxEpochs>>)

(***************************************************************************)
(* C9: the exit status is 0 on graceful stop and on normal completion and  *)
(* non-zero whenever a fatal error escapes the training logic of main.     *)
(***************************************************************************)
C9_ExitStatus ==
    pc = "exited" =>
        /\ outcome \in {"stopped", "finished"} => exit_status = 0
        /\ outcome = "fatal" => exit_status # 0

(***************************************************************************)
(* C10: at the start of, and throughout, the training pass of every epoch  *)
(* e the scheduler's epoch index is e and the optimizer's rate is          *)
(* factor(e) times the initial rate, in a fresh run as in a resumed one;   *)
(* the scheduler is stepped exactly once per epoch that is followed by     *)
(* another loop iteration or by the test pass.                             *)
(***************************************************************************)
C10_SchedulerTracksEpoch ==
    /\ (pc = "run" /\ split = "train") =>
          /\ ep_arg = epoch
          /\ lrs_last_epoch = epoch
          /\ opt_lr = epoch
    /\ pc = "loop" => lrs_last_epoch = it
    /\ TestStarted => lrs_last_epoch = it
    /\ outcome = "stopped" => lrs_last_epoch = epoch
    /\ \A e \in Epochs :
          /\ Count(<<"lrs_step", "", e + 1>>) <= 1
          /\ Has(<<"lrs_step", "", e + 1>>) => Has(<<"log", "valid", e>>)
          /\ (Has(<<"start", "train", e>>)
                /\ (Has(<<"start", "train", e + 1>>) \/ TestStarted)) =>
                Count(<<"lrs_step", "", e + 1>>) = 1
    /\ \A k \in DOMAIN trace :
          trace[k][1] = "lrs_step" => Has(<<"start", "train", trace[k][3] - 1>>)

C10_Witness ==
    /\ pc = "run"
    /\ split = "train"
    /\ ResumedFrom = 1
    /\ ep_arg = 1
    /\ lrs_last_epoch = 1
    /\ opt_lr = 1
    /\ cp["opt"].obj.lr = 0

(***************************************************************************)
(* C11: with n_warmup = 3 and warmup_init_lr = 0.1 * lr the factor of the  *)
(* schedule satisfies factor(0) < factor(1) < factor(2) <= factor(3) = 1,  *)
(* and the warmup values are the linear interpolation from 0.1 to 1.0 of   *)
(* the base rate: factor(e) = 0.1 + 0.9 * e / 3.                           *)
(***************************************************************************)
Less(a, b) == a.num * b.den < b.num * a.den

C11_WarmupMonotone ==
    LET f(e) == cosine_lr_scheduler(lr, e)
    IN  /\ factor = f(lrs_last_epoch)
        /\ Less(f(0), f(1))
        /\ Less(f(1), f(2))
        /\ ~Less(f(3), f(2))
        /\ f(3).num = f(3).den
        /\ \A e \in 0..2 : 30 * f(e).num = (3 + 9 * e) * f(e).den

C11_Witness ==
    /\ pc = "lrs"
    /\ lr = DefaultLr
    /\ lrs_last_epoch = 3
    /\ factor = [num |-> DefaultLr, den |-> DefaultLr]

(***************************************************************************)
(* C12: for every set of named parameters and each of the selectors adam,  *)
(* adamw, sgd and rmsprop, load_opt binds the optimizer to exactly: with   *)
(* MASK_ONLY the parameters whose name holds neither "dfrnn" nor "df_dec"; *)
(* else with DF_ONLY those whose lower-cased name holds "df"; else all.    *)
(* (An optimizer exists only for a selection that is not empty: torch      *)
(* refuses an empty parameter list.)                                       *)
(***************************************************************************)
ExpectedParams ==
    IF mask_only
    THEN {n \in named_parameters :
              /\ ~Contains(n, <<"d", "f", "r", "n", "n">>)
              /\ ~Contains(n, <<"d", "f", "_", "d", "e", "c">>)}
    ELSE IF df_only
    THEN {n \in named_parameters : Contains(Lower(n), <<"d", "f">>)}
    ELSE named_parameters

C12_OptimizerBoundToSelection ==
    [][(pc = "load" /\ Lower(optimizer) \in Supported) =>
           IF ExpectedParams = {}
           THEN pc' = "exited" /\ raised_at' = "opt_init" /\ opt_params' = {}
           ELSE pc' = "start_eval" /\ opt_params' = ExpectedParams]_vars

C12_Witness ==
    /\ pc = "start_eval"
    /\ df_only
    /\ ~mask_only
    /\ named_parameters = Names
    /\ opt_params = Names \ {<<"e", "n", "c">>}

(***************************************************************************)
(* C13: an optimizer selector that, lower-cased, is none of adam, adamw,   *)
(* sgd, rmsprop makes startup fail with a configuration error (ValueError) *)
(* before any pass runs, the START_EVAL validation included, and before    *)
(* any checkpoint is written.                                              *)
(***************************************************************************)
C13_UnsupportedSelectorFailsFast ==
    /\ [](raised_at = "load_opt" =>
              /\ outcome = "fatal"
              /\ raised.type = "ValueError"
              /\ raised.msg \notin Supported
              /\ \A k \in DOMAIN trace : trace[k][1] = "read_cp")
    /\ [][(pc = "load" /\ Lower(optimizer) \notin Supported) =>
              /\ pc' = "exited"
              /\ raised_at' = "load_opt"
              /\ raised'.type = "ValueError"
              /\ cp' = cp]_vars

C13_Witness ==
    /\ pc = "exited"
    /\ raised_at = "load_opt"
    /\ raised.msg = <<"l", "i", "o", "n">>
    /\ start_eval
    /\ trace = << <<"read_cp", "model", 1>> >>

(***************************************************************************)
(* C14: a missing dataset config file, or a missing dataset directory,     *)
(* stops main with an error at argument validation, before the model, the  *)
(* optimizer or the loader is built and before any pass.                   *)
(***************************************************************************)
C14_MissingPathFailsFast ==
    (~data_config_file \/ ~data_dir) =>
        /\ pc = "exited"
        /\ outcome = "fatal"
        /\ raised_at = "args"

(***************************************************************************)
(* C15: a run_epoch call in which no batch yields a finite loss (an empty  *)
(* split, or at most 10 batches that are all non-finite) completes and     *)
(* returns a sentinel as the mean: it does not fail on the empty l_mem.    *)
(***************************************************************************)
C15_EmptyPassReturnsSentinel ==
    ~(outcome = "fatal" /\ raised_at = "stack" /\ raised = EmptyStack)

(***************************************************************************)
(* C16: the NaN budget is fresh in every run_epoch call: n_nans is 0 at    *)
(* the start of each training, validation and test pass and counts the     *)
(* non-finite batches of that pass only, so that a pass aborts on its own  *)
(* 11th non-finite batch whatever the earlier passes of the run skipped.   *)
(***************************************************************************)
C16_FreshBudgetPerPass ==
    /\ (pc = "run" /\ i = 0) => n_nans = 0
    /\ pc = "run" => (n_nans = seen_nonfinite /\ n_nans <= i)
    /\ NaNAbort => seen_nonfinite = MaxNaNs + 1

C16_Witness ==
    /\ pc = "run"
    /\ budget_used
    /\ split = "valid"
    /\ caller = "after_valid"
    /\ n_nans = MaxNaNs
    /\ Len(l_mem) = 1

(***************************************************************************)
(* C17: a failure of forward, loss computation or backward that is no      *)
(* non-finite numerical condition is never handled by the NaN policy: the  *)
(* batch that raises it ends the pass with that failure, n_nans is not     *)
(* incremented and no further batch is read.                               *)
(***************************************************************************)
\* the exception batch b raises in a pass, NoExc if none
FailureOf(b, is_train) ==
    IF b.fwd # NoExc THEN b.fwd
    ELSE IF b.loss # NoExc THEN b.loss
    ELSE IF is_train /\ b.grad # NoExc THEN b.grad
    ELSE NoExc

C17_OtherErrorsPropagate ==
    [][(pc = "run" /\ FailureOf(batch, split = "train") \in NonNumerical) =>
           /\ pc' = "exited"
           /\ outcome' = "fatal"
           /\ raised' = FailureOf(batch, split = "train")
           /\ raised_at' \in {"forward", "loss", "grad"}]_vars

(***************************************************************************)
(* C18: in run_epoch the hidden state is detached between any two          *)
(* consecutive batches: at the start of every forward pass but the first   *)
(* detach_hidden has run since the previous forward pass, also when the    *)
(* previous batch was skipped as non-finite.                               *)
(***************************************************************************)
C18_HiddenDetachedBetweenBatches ==
    (pc = "run" /\ i > 0) => hidden_detached

(***************************************************************************)
(* C19: wherever main ends (graceful stop, normal completion, or a fatal   *)
(* error raised from a pass) the latest model checkpoint tag written by    *)
(* the run equals the latest optimizer checkpoint tag, is at most          *)
(* MAX_EPOCHS and is 1 + the index of the last epoch whose training pass   *)
(* completed in the run; no checkpoint is written if none completed.       *)
(***************************************************************************)
MaxOf(S, default) ==
    IF S = {} THEN default ELSE CHOOSE x \in S : \A y \in S : y <= x

\* the latest tag this run wrote for role, 0 if it wrote none
LastTag(role) ==
    MaxOf({trace[k][3] : k \in {j \in DOMAIN trace :
                                   trace[j][1] = "write_cp" /\ trace[j][2] = role}}, 0)

\* the last epoch whose training pass completed in this run, -1 if none did
LastTrained ==
    MaxOf({trace[k][3] : k \in {j \in DOMAIN trace :
                                   trace[j][1] = "end" /\ trace[j][2] = "train"}}, -1)

C19_TagsAgreeAtExit ==
    pc = "exited" =>
        /\ LastTag("model") = LastTag("opt")
        /\ LastTag("model") <= MaxEpochs
        /\ LastTag("model") = LastTrained + 1
        /\ cp["model"].epoch = cp["opt"].epoch
        /\ LastTag("model") # 0 =>
              /\ cp["model"].epoch = LastTag("model")
              /\ cp["opt"].epoch = LastTag("opt")

C19_Witness ==
    /\ pc = "exited"
    /\ outcome = "fatal"
    /\ split = "valid"
    /\ raised_at = "loss"
    /\ epoch = 1
    /\ LastTag("model") = 2
    /\ cp["opt"].epoch = 2

(***************************************************************************)
(* C20: with finite batch sequences and a finite MAX_EPOCHS every run of   *)
(* main ends, in exactly one of: normal completion after the test pass,    *)
(* graceful stop after a validation pass, a fatal error; the epoch index   *)
(* of the loop goes up by exactly 1 per iteration from the resumed index   *)
(* and stays below MAX_EPOCHS inside the loop.                             *)
(***************************************************************************)
\* the number of training passes started before event k of the trace
TrainStartsBefore(k) ==
    Cardinality({j \in 1..(k - 1) : trace[j][1] = "start" /\ trace[j][2] = "train"})

C20_LoopIndex ==
    /\ \A k \in DOMAIN trace :
          (trace[k][1] = "start" /\ trace[k][2] = "train") =>
              /\ trace[k][3] = ResumedFrom + TrainStartsBefore(k)
              /\ trace[k][3] < MaxEpochs
    /\ InLoopBody => (epoch < MaxEpochs /\ it = epoch + 1)
    /\ pc = "exited" =>
          /\ outcome \in {"finished", "stopped", "fatal"}
          /\ outcome = "finished" =>
                (exit_status = 0 /\ trace[Len(trace)] = <<"log", "test", epoch>>)
          /\ outcome = "stopped" =>
                (raised = SystemExit /\ trace[Len(trace)] = <<"log", "valid", epoch>>)
          /\ outcome = "fatal" => raised \notin {NoExc, SystemExit}
    /\ pc # "exited" => outcome = "running"

C20_Terminates ==
    /\ []C20_LoopIndex
    /\ (pc # "exited") ~> (pc = "exited")

C20_Witness ==
    /\ pc = "exited"
    /\ outcome = "finished"
    /\ ResumedFrom = 1
    /\ Has(<<"start", "train", 1>>)
    /\ ~Has(<<"start", "train", 0>>)

====
